---- MODULE Spec2Model ----
(***************************************************************************)
(* rscode: en-/decode bytes of file names the way rsync does (\#ooo).      *)
(* Model of src/src/rscode.c.  Bytes are the integers 0..255 (the value of *)
(* the byte seen as unsigned char); a C string is the sequence of its      *)
(* bytes before the terminating NUL.                                       *)
(*                                                                         *)
(* Two specifications:                                                     *)
(*   SpecCodec  the transcoder functions encode/decode applied to one      *)
(*              record drawn from a bounded set of inputs;                 *)
(*   Spec       the whole program: option parsing, argument mode, the      *)
(*              stream reader with its growable buffer.                    *)
(***************************************************************************)
EXTENDS Integers, Sequences, FiniteSets

VARIABLES
    pc,        \* control position of the program (or of the codec harness)
    s_decode,  \* static bool s_decode
    s_inpstr,  \* static FILE *s_inpstr: "NULL", "stdin" or "file"
    s_nulterm, \* static bool s_nulterm
    args,      \* the positional arguments not yet processed (argv after optind)
    buf,       \* the record buffer: bufsz cells, Uninit where never written
    bufsz,     \* its capacity
    bufpos,    \* the write position (C index, 0-based)
    out,       \* the bytes written to standard output
    status,    \* "running", "success", "failure" or "crash"
    warnMissing, \* number of "terminator missing" warnings issued
    warnIgnored, \* number of "ignoring -0" warnings issued
    notice,    \* the text that ended the run, if any: "none", "usage_stdout",
               \* "usage_stderr", "version_stdout", or the fatal diagnostic
               \* "fopen", "arguments and -f", "malloc", "realloc", "fgetc"
    opt0,      \* history: option -0 was given
    optf,      \* history: option -f was given and its stream opened
    nargs,     \* history: number of positional arguments of the command line
    consumed,  \* history: the bytes getc has returned so far
    cuts,      \* history: positions in consumed at which a record was cut
    calls,     \* history: the strings handed to encode/decode, in order
    wridx,     \* history: C index of the last write into buf (-1: none yet)
    rec,       \* codec harness: the input record
    back       \* codec harness: output of decode applied to encode's text

vars == <<pc, s_decode, s_inpstr, s_nulterm, args, buf, bufsz, bufpos, out,
          status, warnMissing, warnIgnored, notice, opt0, optf, nargs,
          consumed, cuts, calls, wridx, rec, back>>

----------------------------------------------------------------------------
(* Byte values the code names by character literals.                       *)
NUL == 0
LF == 10
HASH == 35
BSLASH == 92
Uninit == -1

(* Model bounds: the longest record over Alphabet, the number of bytes     *)
(* getc returns before end of stream, and the initial capacity of the      *)
(* record buffer (1024 in the source, line 221, scaled down so that the    *)
(* stream can fill the buffer and make it double).                         *)
MaxLen == 5
MaxStream == 5
InitBufSz == 2

----------------------------------------------------------------------------
(* <ctype.h> in the "C" locale (the program never calls setlocale), on the *)
(* byte's unsigned value.  isascii is false for every byte >= 128, so the  *)
(* value isprint returns for such a byte never decides encode's test.      *)
isprint(c) == c >= 32 /\ c <= 126
isascii(c) == c >= 0 /\ c <= 127
isdigit(c) == c >= 48 /\ c <= 57

isodigit_decimal(c) == c >= 48 /\ c <= 57
isodigit(c) == c >= 48 /\ c <= 55

iseseq_strict_or_nothing(s, strict) ==
    /\ strict
    /\ Len(s) >= 1
    /\ s[1] = BSLASH
    /\ Len(s) >= 5
    /\ s[2] = HASH
    /\ isodigit(s[3]) /\ isodigit(s[4]) /\ isodigit(s[5])
(* iseseq(s, strict): s is the rest of the string from the current byte.   *)
iseseq(s, strict) ==
    /\ Len(s) >= 1
    /\ s[1] = BSLASH
    /\ Len(s) >= 5
    /\ s[2] = HASH
    /\ IF strict
       THEN isodigit(s[3]) /\ isodigit(s[4]) /\ isodigit(s[5])
       ELSE isdigit(s[3]) /\ isdigit(s[4]) /\ isdigit(s[5])

(* strtol(tmp, NULL, base) on a 3-byte string: the longest prefix of       *)
(* digits below the base is converted, the rest ignored.                   *)
strtol3(t, base) ==
    LET ok(c) == c >= 48 /\ c < 48 + base
        d(c) == c - 48
    IN  IF ~ok(t[1]) THEN 0
        ELSE IF ~ok(t[2]) THEN d(t[1])
        ELSE IF ~ok(t[3]) THEN d(t[1]) * base + d(t[2])
        ELSE (d(t[1]) * base + d(t[2])) * base + d(t[3])

parseeseq_base10(s) == strtol3(SubSeq(s, 3, 5), 10)
parseeseq(s) == strtol3(SubSeq(s, 3, 5), 8)

(* putchar(c) writes (unsigned char)c.                                     *)
putchar(c) == <<c % 256>>

printf_escape_unpadded(b) ==
    IF b < 8 THEN <<BSLASH, HASH, 48 + b>>
    ELSE IF b < 64 THEN <<BSLASH, HASH, 48 + (b \div 8), 48 + (b % 8)>>
    ELSE <<BSLASH, HASH, 48 + (b \div 64), 48 + ((b \div 8) % 8), 48 + (b % 8)>>
(* fprintf(stdout, "\\#%03o", (unsigned char)*s)                           *)
printf_escape(b) ==
    <<BSLASH, HASH, 48 + (b \div 64), 48 + ((b \div 8) % 8), 48 + (b % 8)>>

(* The loop of encode, without the final putchar('\n').                    *)
RECURSIVE encode_loop(_)
encode_loop(s) ==
    IF s = <<>> THEN <<>>
    ELSE (IF iseseq(s, FALSE) \/ ~isprint(s[1]) \/ ~isascii(s[1])
          THEN printf_escape(s[1])
          ELSE putchar(s[1]))
         \o encode_loop(Tail(s))

encode(s) == encode_loop(s) \o putchar(LF)

(* The loop of decode, without the final putchar of the terminator.        *)
RECURSIVE decode_loop(_)
decode_loop(s) ==
    IF s = <<>> THEN <<>>
    ELSE IF iseseq(s, TRUE)
         THEN putchar(parseeseq(s)) \o decode_loop(SubSeq(s, 6, Len(s)))
         ELSE putchar(s[1]) \o decode_loop(Tail(s))

decode(s) == decode_loop(s) \o putchar(IF s_nulterm THEN NUL ELSE LF)

(* void (*encdec)(const char *) = s_decode ? decode : encode;              *)
encdec(s) == IF s_decode THEN decode(s) ELSE encode(s)

----------------------------------------------------------------------------
(* Inputs of the codec harness.                                            *)
RECURSIVE SeqsUpTo(_, _)
SeqsUpTo(S, n) ==
    IF n = 0 THEN {<<>>}
    ELSE LET shorter == SeqsUpTo(S, n - 1)
         IN  shorter \cup {Append(t, x) : t \in shorter, x \in S}

(* a control byte, '#', '1', '8', backslash, a byte above 127 *)
Alphabet == {1, HASH, 49, 56, BSLASH, 200}

(* "hello", DEL, '~' and space, 0xFF, 0x80, a line feed inside an argument *)
Examples == { <<104, 101, 108, 108, 111>>, <<127>>, <<126, 32>>, <<255>>,
              <<128>>, <<97, LF, 98>> }

Pads == { <<>>, <<BSLASH>>, <<BSLASH, HASH, 49>>, <<BSLASH, HASH, 49, 49, 49>> }

(* every backslash-hash-three-decimal-digits run, alone and in context *)
Lookalikes == { pre \o <<BSLASH, HASH, d1, d2, d3>> \o post :
                  pre \in Pads, post \in Pads,
                  d1 \in 48..57, d2 \in 48..57, d3 \in 48..57 }

CodecInputs == SeqsUpTo(Alphabet, MaxLen) \cup Examples \cup Lookalikes

InitCodec ==
    /\ pc = "input"
    /\ rec \in CodecInputs
    /\ s_nulterm \in BOOLEAN
    /\ s_decode = FALSE
    /\ s_inpstr = "NULL"
    /\ args = <<>>
    /\ buf = <<>>
    /\ bufsz = 0
    /\ bufpos = 0
    /\ out = <<>>
    /\ status = "running"
    /\ warnMissing = 0
    /\ warnIgnored = 0
    /\ notice = "none"
    /\ opt0 = FALSE
    /\ optf = FALSE
    /\ nargs = 0
    /\ consumed = <<>>
    /\ cuts = {}
    /\ calls = <<>>
    /\ wridx = -1
    /\ back = <<>>

codecFrame == <<s_decode, s_inpstr, s_nulterm, args, buf, bufsz, bufpos, status,
                warnMissing, warnIgnored, notice, opt0, optf, nargs, consumed,
                cuts, calls, wridx, rec>>

(* encode(rec) *)
CallEncode ==
    /\ pc = "input"
    /\ out' = encode(rec)
    /\ pc' = "encoded"
    /\ UNCHANGED <<codecFrame, back>>

(* decode(rec) *)
CallDecode ==
    /\ pc = "input"
    /\ out' = decode(rec)
    /\ pc' = "decoded"
    /\ UNCHANGED <<codecFrame, back>>

(* decode applied to the text encode wrote, without encode's terminator *)
CallDecodeOnEncoded ==
    /\ pc = "encoded"
    /\ back' = decode(SubSeq(out, 1, Len(out) - 1))
    /\ pc' = "piped"
    /\ UNCHANGED <<codecFrame, out>>

NextCodec == CallEncode \/ CallDecode \/ CallDecodeOnEncoded

SpecCodec == InitCodec /\ [][NextCodec]_vars

----------------------------------------------------------------------------
(* The program: process_args, then main.                                   *)
(* pc: "getopt" (in the option loop), "main" (process_args returned),      *)
(* "args" (argument loop), "read" (stream loop), "eof" (ended through the  *)
(* end-of-stream path, lines 245-254), "exit" (ended any other way).       *)

MaxArgs == 2

ArgRecords == { <<97>>, <<BSLASH, HASH, 49, 49, 49>> }
ArgLists == SeqsUpTo(ArgRecords, MaxArgs)

(* the bytes getc may return: NUL, line feed, 'a' *)
StreamBytes == {NUL, LF, 97}

Init ==
    /\ pc = "getopt"
    /\ s_decode = FALSE
    /\ s_inpstr = "NULL"
    /\ s_nulterm = FALSE
    /\ args \in ArgLists
    /\ nargs = Len(args)
    /\ buf = <<>>
    /\ bufsz = 0
    /\ bufpos = 0
    /\ out = <<>>
    /\ status = "running"
    /\ warnMissing = 0
    /\ warnIgnored = 0
    /\ notice = "none"
    /\ opt0 = FALSE
    /\ optf = FALSE
    /\ consumed = <<>>
    /\ cuts = {}
    /\ calls = <<>>
    /\ wridx = -1
    /\ rec = <<>>
    /\ back = <<>>

harness == <<rec, back>>
bufvars == <<buf, bufsz, bufpos, wridx>>
streamhist == <<consumed, cuts>>
warnvars == <<warnMissing, warnIgnored>>

(* exit(ec): the process ends *)
Exit(ec) == pc' = "exit" /\ status' = ec

(* err(EXIT_FAILURE, ...), errx(EXIT_FAILURE, ...): diagnostic, then exit *)
Die(msg) == Exit("failure") /\ notice' = msg

(* case 'e': case 'd': s_decode = ch == 'd'; *)
getopt_e_d(ch) ==
    /\ pc = "getopt"
    /\ s_decode' = (ch = "d")
    /\ UNCHANGED <<pc, s_inpstr, s_nulterm, args, bufvars, out, status, warnvars,
                   notice, opt0, optf, nargs, streamhist, calls, harness>>

(* case 'f': "-" is stdin, else fopen; there is no break, so control falls *)
(* through into case '0'.                                                  *)
getopt_f(path) ==
    /\ pc = "getopt"
    /\ IF path = "unreadable"
       THEN /\ Die("fopen")
            /\ UNCHANGED <<s_inpstr, s_nulterm, optf>>
       ELSE /\ s_inpstr' = (IF path = "-" THEN "stdin" ELSE "file")
            /\ s_nulterm' = TRUE
            /\ optf' = TRUE
            /\ UNCHANGED <<pc, status, notice>>
    /\ UNCHANGED <<s_decode, args, bufvars, out, warnvars, opt0, nargs,
                   streamhist, calls, harness>>

(* case '0': s_nulterm = true; *)
getopt_0 ==
    /\ pc = "getopt"
    /\ s_nulterm' = TRUE
    /\ opt0' = TRUE
    /\ UNCHANGED <<pc, s_decode, s_inpstr, args, bufvars, out, status, warnvars,
                   notice, optf, nargs, streamhist, calls, harness>>

(* case 'h': usage(stdout, a0, EXIT_SUCCESS); *)
getopt_h ==
    /\ pc = "getopt"
    /\ notice' = "usage_stdout"
    /\ Exit("success")
    /\ UNCHANGED <<s_decode, s_inpstr, s_nulterm, args, bufvars, out, warnvars,
                   opt0, optf, nargs, streamhist, calls, harness>>

(* case 'V': puts(PACKAGE_NAME " v" PACKAGE_VERSION); exit(EXIT_SUCCESS); *)
getopt_V ==
    /\ pc = "getopt"
    /\ notice' = "version_stdout"
    /\ Exit("success")
    /\ UNCHANGED <<s_decode, s_inpstr, s_nulterm, args, bufvars, out, warnvars,
                   opt0, optf, nargs, streamhist, calls, harness>>

(* default: usage(stderr, a0, EXIT_FAILURE); *)
getopt_default ==
    /\ pc = "getopt"
    /\ notice' = "usage_stderr"
    /\ Exit("failure")
    /\ UNCHANGED <<s_decode, s_inpstr, s_nulterm, args, bufvars, out, warnvars,
                   opt0, optf, nargs, streamhist, calls, harness>>

process_args_end_no_conflict_check ==
    /\ pc = "getopt"
    /\ s_inpstr' = (IF args = <<>> /\ s_inpstr = "NULL" THEN "stdin" ELSE s_inpstr)
    /\ IF args # <<>> /\ ~s_decode /\ s_nulterm
       THEN s_nulterm' = FALSE /\ warnIgnored' = warnIgnored + 1
       ELSE UNCHANGED <<s_nulterm, warnIgnored>>
    /\ pc' = "main"
    /\ UNCHANGED <<status, s_decode, args, bufvars, out, warnMissing, notice,
                   opt0, optf, nargs, streamhist, calls, harness>>
(* getopt returned -1: lines 73-85 of process_args *)
process_args_end ==
    /\ pc = "getopt"
    /\ IF args # <<>> /\ s_inpstr # "NULL"
       THEN /\ Die("arguments and -f")
            /\ UNCHANGED <<s_inpstr, s_nulterm, warnIgnored>>
       ELSE /\ s_inpstr' = (IF args = <<>> /\ s_inpstr = "NULL"
                            THEN "stdin" ELSE s_inpstr)
            /\ IF args # <<>> /\ ~s_decode /\ s_nulterm
               THEN s_nulterm' = FALSE /\ warnIgnored' = warnIgnored + 1
               ELSE UNCHANGED <<s_nulterm, warnIgnored>>
            /\ pc' = "main"
            /\ UNCHANGED <<status, notice>>
    /\ UNCHANGED <<s_decode, args, bufvars, out, warnMissing, opt0, optf,
                   nargs, streamhist, calls, harness>>

(* encdec(s): the transcoder writes to standard output *)
Transcode(s) == out' = out \o encdec(s) /\ calls' = Append(calls, s)

(* main, lines 212-216: one iteration of while (argc--) *)
main_args_loop ==
    /\ pc \in {"main", "args"}
    /\ args # <<>>
    /\ Transcode(Head(args))
    /\ args' = Tail(args)
    /\ pc' = "args"
    /\ UNCHANGED <<s_decode, s_inpstr, s_nulterm, bufvars, status, warnvars,
                   notice, opt0, optf, nargs, streamhist, harness>>

(* main, line 218: return EXIT_SUCCESS after the argument loop *)
main_args_return ==
    /\ pc = "args"
    /\ args = <<>>
    /\ Exit("success")
    /\ UNCHANGED <<s_decode, s_inpstr, s_nulterm, args, bufvars, out, warnvars,
                   notice, opt0, optf, nargs, streamhist, calls, harness>>

(* main, lines 221-226: bufsz = 1024 (scaled to InitBufSz); malloc *)
main_malloc(ok) ==
    /\ pc = "main"
    /\ args = <<>>
    /\ IF ok
       THEN /\ bufsz' = InitBufSz
            /\ bufpos' = 0
            /\ buf' = [i \in 1..InitBufSz |-> Uninit]
            /\ pc' = "read"
            /\ UNCHANGED <<status, notice>>
       ELSE /\ Die("malloc")
            /\ UNCHANGED <<buf, bufsz, bufpos>>
    /\ UNCHANGED <<s_decode, s_inpstr, s_nulterm, args, out, warnvars,
                   opt0, optf, nargs, streamhist, calls, wridx, harness>>

input_terminator_nulterm_only == IF s_nulterm THEN NUL ELSE LF
(* line 237: (!s_decode && s_nulterm ? '\0' : '\n') *)
input_terminator == IF ~s_decode /\ s_nulterm THEN NUL ELSE LF

(* the C string that starts at b[0] *)
CStr(b) ==
    LET n == CHOOSE i \in 1..Len(b) :
                 b[i] = NUL /\ \A j \in 1..(i - 1) : b[j] # NUL
    IN  SubSeq(b, 1, n - 1)

(* main, lines 229-243: getc returned the byte c; one iteration *)
main_read_byte(c) ==
    /\ pc = "read"
    /\ Len(consumed) < MaxStream
    /\ consumed' = Append(consumed, c)
    /\ LET grow == bufpos >= bufsz
           sz == IF grow THEN bufsz * 2 ELSE bufsz
           b == IF grow THEN buf \o [i \in 1..bufsz |-> Uninit] ELSE buf
       IN  /\ bufsz' = sz
           /\ wridx' = bufpos
           /\ IF c = input_terminator
              THEN /\ buf' = [b EXCEPT ![bufpos + 1] = NUL]
                   /\ Transcode(CStr(buf'))
                   /\ bufpos' = 0
                   /\ cuts' = cuts \cup {Len(consumed')}
              ELSE /\ buf' = [b EXCEPT ![bufpos + 1] = c]
                   /\ bufpos' = bufpos + 1
                   /\ UNCHANGED <<out, calls, cuts>>
    /\ UNCHANGED <<pc, s_decode, s_inpstr, s_nulterm, args, status, warnvars,
                   notice, opt0, optf, nargs, harness>>

(* main, lines 230-234: realloc returned NULL *)
main_realloc_fail(c) ==
    /\ pc = "read"
    /\ Len(consumed) < MaxStream
    /\ bufpos >= bufsz
    /\ consumed' = Append(consumed, c)
    /\ Die("realloc")
    /\ UNCHANGED <<s_decode, s_inpstr, s_nulterm, args, bufvars, out, warnvars,
                   opt0, optf, nargs, cuts, calls, harness>>

(* main, lines 245-246: getc returned EOF and ferror is set *)
main_read_error ==
    /\ pc = "read"
    /\ Die("fgetc")
    /\ UNCHANGED <<s_decode, s_inpstr, s_nulterm, args, bufvars, out, warnvars,
                   opt0, optf, nargs, streamhist, calls, harness>>

(* main, lines 245-254: getc returned EOF, no read error.  With bufpos =   *)
(* bufsz the store buf[bufpos] = '\0' is one past the allocation:          *)
(* undefined behaviour, of which two outcomes are modelled: the NUL lands  *)
(* in allocator slack and the string is the whole buffer ("slack"), or the *)
(* process is aborted ("abort").                                           *)
main_read_eof(outcome) ==
    /\ pc = "read"
    /\ pc' = "eof"
    /\ IF bufpos = 0
       THEN /\ status' = "success"
            /\ UNCHANGED <<buf, wridx, out, calls, warnMissing>>
       ELSE /\ warnMissing' = warnMissing + 1
            /\ wridx' = bufpos
            /\ IF bufpos < bufsz
               THEN /\ buf' = [buf EXCEPT ![bufpos + 1] = NUL]
                    /\ Transcode(CStr(buf'))
                    /\ status' = "success"
               ELSE /\ UNCHANGED buf
                    /\ IF outcome = "slack"
                       THEN /\ Transcode(CStr(buf \o <<NUL>>))
                            /\ status' = "success"
                       ELSE /\ status' = "crash"
                            /\ UNCHANGED <<out, calls>>
    /\ UNCHANGED <<s_decode, s_inpstr, s_nulterm, args, bufsz, bufpos,
                   warnIgnored, notice, opt0, optf, nargs, streamhist, harness>>

Next ==
    \/ \E ch \in {"e", "d"} : getopt_e_d(ch)
    \/ \E path \in {"-", "file", "unreadable"} : getopt_f(path)
    \/ getopt_0
    \/ getopt_h
    \/ getopt_V
    \/ getopt_default
    \/ process_args_end
    \/ main_args_loop
    \/ main_args_return
    \/ \E ok \in BOOLEAN : main_malloc(ok)
    \/ \E c \in StreamBytes : main_read_byte(c)
    \/ \E c \in StreamBytes : main_realloc_fail(c)
    \/ main_read_error
    \/ \E outcome \in {"slack", "abort"} : main_read_eof(outcome)

Spec == Init /\ [][Next]_vars

----------------------------------------------------------------------------
(* Properties of the transcoder, stated by positions in the text.          *)

Terminator == IF s_nulterm THEN NUL ELSE LF

(* a backslash, '#', three bytes in '0'..'9' begin at position i of r *)
LenientRunAt(r, i) ==
    /\ i + 4 <= Len(r)
    /\ r[i] = BSLASH /\ r[i + 1] = HASH
    /\ \A k \in 2..4 : r[i + k] \in 48..57

(* a backslash, '#', three bytes in '0'..'7' begin at position i of r *)
StrictTokenAt(r, i) ==
    /\ i + 4 <= Len(r)
    /\ r[i] = BSLASH /\ r[i + 1] = HASH
    /\ \A k \in 2..4 : r[i + k] \in 48..55

(* the byte at position i of r is one that encode must escape *)
MustEscape(r, i) ==
    LenientRunAt(r, i) \/ r[i] < 32 \/ r[i] > 126 \/ r[i] >= 128

Escaped(r) == {i \in 1..Len(r) : MustEscape(r, i)}

(* where the image of byte i of r begins in the encoded text *)
EncPos(r, i) == i + 4 * Cardinality({j \in Escaped(r) : j < i})

ThreeOctalDigits(b) == <<48 + (b \div 64), 48 + ((b \div 8) % 8), 48 + (b % 8)>>

Tokens(r) == {i \in 1..Len(r) : StrictTokenAt(r, i)}

(* position k of r lies inside a token that begins before k *)
InsideToken(r, k) == \E j \in Tokens(r) : j < k /\ k <= j + 4

(* where the image of position k of r lies in the decoded bytes *)
DecPos(r, k) == k - 4 * Cardinality({j \in Tokens(r) : j < k})

OctalNumber(r, i) == (r[i + 2] - 48) * 64 + (r[i + 3] - 48) * 8 + (r[i + 4] - 48)

(* C1: decoding the text encode produced for a record, without encode's    *)
(* terminator, yields exactly the record (followed by decode's own         *)
(* terminator), whether or not the record holds a backslash-hash-three-    *)
(* decimal-digits run.                                                     *)
C1_RoundTrip == pc = "piped" => back = rec \o <<Terminator>>

(* C1 witness: a record holding a lenient (non-octal) run and a strict one *)
(* has been encoded and decoded back.                                      *)
C1_Witness ==
    /\ pc = "piped"
    /\ rec = <<BSLASH, HASH, 49, 56, 57>> \o <<BSLASH, HASH, 49, 49, 49>>
    /\ back = rec \o <<Terminator>>

(* C2: encode maps each byte, in order and independently, to the 5-byte    *)
(* token backslash '#' and its value in three zero-padded octal digits     *)
(* when the byte starts a lenient run, is not printable or is >= 128, and  *)
(* to itself otherwise; the text before the line feed is printable ASCII   *)
(* and has length len(r) + 4 * (number of escaped bytes); the examples of  *)
(* the claim come out as stated.                                           *)
C2_EncodeMap ==
    pc = "encoded" =>
        /\ Len(out) = Len(rec) + 4 * Cardinality(Escaped(rec)) + 1
        /\ out[Len(out)] = LF
        /\ \A k \in 1..(Len(out) - 1) : out[k] >= 32 /\ out[k] <= 126
        /\ \A i \in 1..Len(rec) :
              LET p == EncPos(rec, i)
              IN  IF MustEscape(rec, i)
                  THEN SubSeq(out, p, p + 4)
                         = <<BSLASH, HASH>> \o ThreeOctalDigits(rec[i])
                  ELSE out[p] = rec[i]
        /\ rec = <<BSLASH, HASH, 49, 50, 51>>
              => out = <<BSLASH, HASH, 49, 51, 52, HASH, 49, 50, 51, LF>>
        /\ rec = <<BSLASH, HASH, 49, 56, 57>>
              => out = <<BSLASH, HASH, 49, 51, 52, HASH, 49, 56, 57, LF>>
        /\ rec = <<BSLASH, HASH, 49, 49>> => out = rec \o <<LF>>
        /\ rec = <<1>> => out = <<BSLASH, HASH, 48, 48, 49, LF>>
        /\ rec = <<104, 101, 108, 108, 111>> => out = rec \o <<LF>>

(* C2 witness: a record with an escaped backslash, a kept backslash and a  *)
(* control byte has been encoded.                                          *)
C2_Witness ==
    /\ pc = "encoded"
    /\ rec = <<BSLASH, HASH, 49, 56, 56, BSLASH>>
    /\ out = <<BSLASH, HASH, 49, 51, 52, HASH, 49, 56, 56, BSLASH, LF>>

(* C3: decode emits a record that holds no strict token unchanged,         *)
(* followed by the terminator; a backslash-hash run with an '8' or '9'     *)
(* among its digits is passed through.                                     *)
C3_DecodeIdentity ==
    (pc = "decoded" /\ Tokens(rec) = {}) => out = rec \o <<Terminator>>

(* C3 witness: the text backslash # 1 8 9 has been decoded to itself.      *)
C3_Witness ==
    /\ pc = "decoded"
    /\ rec = <<BSLASH, HASH, 49, 56, 57>>
    /\ out = rec \o <<Terminator>>

(* C8 as stated: at every position where a strict token begins decode      *)
(* emits one byte equal to the octal number the three digits write, and    *)
(* resumes 5 bytes later; every other byte outside a token is copied.      *)
C8_TokenValueAsStated ==
    pc = "decoded" =>
        /\ Len(out) = Len(rec) - 4 * Cardinality(Tokens(rec)) + 1
        /\ \A i \in Tokens(rec) : out[DecPos(rec, i)] = OctalNumber(rec, i)
        /\ \A k \in 1..Len(rec) :
              (k \notin Tokens(rec) /\ ~InsideToken(rec, k))
                  => out[DecPos(rec, k)] = rec[k]

(* C8 amended: as C8, except that the byte emitted for a strict token is   *)
(* the octal number modulo 256 (the number itself for tokens up to 377).   *)
C8_TokenValueMod256 ==
    pc = "decoded" =>
        /\ Len(out) = Len(rec) - 4 * Cardinality(Tokens(rec)) + 1
        /\ \A i \in Tokens(rec) :
              out[DecPos(rec, i)] = OctalNumber(rec, i) % 256
        /\ \A k \in 1..Len(rec) :
              (k \notin Tokens(rec) /\ ~InsideToken(rec, k))
                  => out[DecPos(rec, k)] = rec[k]

(* C8 witness: two adjacent tokens, the second above 377 octal, decoded.   *)
C8_Witness ==
    /\ pc = "decoded"
    /\ rec = <<BSLASH, HASH, 49, 49, 49>> \o <<BSLASH, HASH, 55, 55, 55>>
    /\ out = <<73, 255, Terminator>>

----------------------------------------------------------------------------
(* Properties of the program.                                              *)

InStream == pc \in {"read", "eof"}

(* the positions of byte t in the bytes read so far *)
Positions(t) == {i \in 1..Len(consumed) : consumed[i] = t}

SetMax(S) == CHOOSE m \in S : \A x \in S : x <= m

(* the bytes read after the last byte t (all of them when there is none) *)
Trailing(t) ==
    SubSeq(consumed, SetMax(Positions(t) \cup {0}) + 1, Len(consumed))

(* the bytes between the byte t at position i and the t before it *)
Segment(t, i) ==
    SubSeq(consumed, SetMax({j \in Positions(t) : j < i} \cup {0}) + 1, i - 1)

(* C4: once the options are parsed and the stream is read, NUL-termination *)
(* mode is active if and only if -0 was given (-f does not change it), so  *)
(* without -0 the stream is cut into records at line feeds.                *)
C4_NulTermIffDash0 ==
    InStream =>
        /\ s_nulterm <=> opt0
        /\ ~opt0 => cuts = Positions(LF)

(* C5 as stated: when decoding with NUL-termination mode active the stream *)
(* is cut into records at NUL bytes; without NUL-termination mode it is    *)
(* cut at line feeds.                                                      *)
C5_SplitAsStated ==
    InStream =>
        /\ (s_decode /\ s_nulterm) => cuts = Positions(NUL)
        /\ ~s_nulterm => cuts = Positions(LF)

(* C5 amended: the stream is cut at NUL bytes when encoding with           *)
(* NUL-termination mode active, and at line feeds in every other mode:     *)
(* when decoding (with or without NUL-termination mode) and when encoding  *)
(* without it.                                                             *)
C5_SplitAmended ==
    InStream =>
        /\ (~s_decode /\ s_nulterm) => cuts = Positions(NUL)
        /\ (s_decode \/ ~s_nulterm) => cuts = Positions(LF)

(* C5 witness: decoding with NUL-termination mode active, a NUL was read   *)
(* and kept in the record, and the record was cut at the line feed.        *)
C5_Witness ==
    /\ pc = "read"
    /\ s_decode /\ s_nulterm
    /\ consumed = <<97, NUL, 97, LF>>
    /\ cuts = {4}

(* C6: when the stream has been read to its end without a read error: if   *)
(* bytes follow the last terminator they are handed to the transcoder as   *)
(* one final record, the warning is issued exactly once, the exit status   *)
(* is success and the records number the terminators plus one; otherwise   *)
(* no warning is issued and the records number the terminators.            *)
C6_FinalRecord ==
    pc = "eof" =>
        LET t == input_terminator
        IN  IF Trailing(t) # <<>>
            THEN /\ warnMissing = 1
                 /\ status = "success"
                 /\ Len(calls) = Cardinality(Positions(t)) + 1
                 /\ calls[Len(calls)] = Trailing(t)
            ELSE /\ warnMissing = 0
                 /\ status = "success"
                 /\ Len(calls) = Cardinality(Positions(t))

(* C7: a command line of -e, -d, -0 and an opened -f (no -h, -V, unknown   *)
(* option or unreadable path), with at least one positional argument,      *)
(* transforms no record, writes nothing to standard output and, once       *)
(* option parsing is over, has exited with failure on the configuration    *)
(* error.                                                                  *)
C7_ConflictIsFatal ==
    (optf /\ nargs > 0 /\ notice \in {"none", "arguments and -f"}) =>
        /\ calls = <<>>
        /\ out = <<>>
        /\ pc # "getopt" =>
              (pc = "exit" /\ status = "failure" /\ notice = "arguments and -f")

(* C7 witness: -d, -0 and -f with two arguments ended in the fatal error.  *)
C7_Witness ==
    /\ pc = "exit" /\ status = "failure"
    /\ optf /\ opt0 /\ s_decode /\ s_inpstr = "file"
    /\ nargs = 2 /\ notice = "arguments and -f"
    /\ out = <<>>

(* C9: every record handed to the transcoder is the complete byte sequence *)
(* between two consecutive terminators; with the line-feed terminator a    *)
(* NUL inside a line is encoded as backslash # 0 0 0 and the bytes after   *)
(* it are still processed.                                                 *)
C9_CompleteRecords ==
    InStream =>
        LET t == input_terminator
        IN  /\ \A i \in Positions(t) :
                  LET k == Cardinality({j \in Positions(t) : j <= i})
                  IN  k <= Len(calls) /\ calls[k] = Segment(t, i)
            /\ (~s_decode /\ t = LF /\ consumed = <<97, NUL, 97, LF>>)
                  => out = <<97, BSLASH, HASH, 48, 48, 48, 97, LF>>

(* C10: every write into the record buffer is at an index strictly less    *)
(* than the buffer's current capacity.                                     *)
C10_WritesInBounds == InStream => wridx < bufsz

====
